---- MODULE Spec2Model ----
(***************************************************************************)
(* Fine Offset sensor decoding (src/src/fine_offset.rs): preamble locator, *)
(* message validator, device decoders and measurement emitter.             *)
(*                                                                         *)
(* Bytes are integers 0..255, u16 values integers 0..65535.  Slices are    *)
(* sequences; a Rust index i (0-based) is element i+1 of the sequence.     *)
(* Physical quantities held as f32 by the code are kept as the integer     *)
(* they are scaled from (tenths of a degree, tenths of a millimetre).      *)
(***************************************************************************)
EXTENDS Integers, Sequences, FiniteSets, TLC

VARIABLES
    padding,          \* bytes prepended to the frame (test: vec![0xaa; i])
    frame,            \* the buffer without its leading padding
    now,              \* the wall clock: the value the next Utc::now() returns
    pc,               \* position of the decode harness
    located,          \* bitstream_to_payload(padding ++ frame)
    outcome,          \* (padding ++ frame).to_measurements()
    ref_located,      \* bitstream_to_payload(frame)
    ref_outcome,      \* frame.to_measurements()
    alias_outcome,    \* the buffer with its probe type byte exchanged, decoded
    arg_payload,          \* validator harness: the payload argument
    arg_expected_id,      \* validator harness: the expected_id argument
    arg_expected_len,     \* validator harness: the expected_len argument
    arg_strict,           \* validator harness: the strict argument
    overflow_checks,  \* validator harness: build with arithmetic overflow checks
    message,          \* validator harness: payload_to_message(...)
    relaxed,          \* validator harness: the same call again with strict = false
    call_buffer,      \* concurrent decodes: the buffer each call decodes (`self`)
    call_pc,          \* concurrent decodes: each call's position in to_measurements
    call_payload,     \* concurrent decodes: each call's bitstream_to_payload(self)
    call_device,      \* concurrent decodes: each call's X::try_from(payload)
    call_result,      \* concurrent decodes: what each call returned
    radio_output,     \* rtl_433: the reads its output pipe will deliver, in order
    radio_stdout,     \* rtl_433: the reads not yet consumed (self.stdout)
    radio_item,       \* rtl_433: what the last Sensor::next() returned
    radio_returned,   \* rtl_433: the records next() has returned so far
    sensor_records,   \* publish loop: the records the sensor iterator will yield
    sensor_ignores,   \* publish loop: conf.sensor_ignores
    session_opt,      \* publish loop: whether an mqtt session is open
    taken,            \* publish loop: how many records the loop has taken
    last,             \* publish loop: the remembered record (`last`)
    published,        \* publish loop: the records handed to session.publish
    loaded_conf,      \* configuration: the Config as it was loaded
    conf,             \* configuration: the Config (`self`)
    arg_matches,      \* configuration: the command line arguments
    update_result     \* configuration: what update_from_args returned

vars == <<padding, frame, now, pc, located, outcome, ref_located, ref_outcome, alias_outcome,
          arg_payload, arg_expected_id, arg_expected_len, arg_strict, overflow_checks, message,
          relaxed, call_buffer, call_pc, call_payload, call_device, call_result,
          radio_output, radio_stdout, radio_item, radio_returned,
          sensor_records, sensor_ignores, session_opt, taken, last, published,
          loaded_conf, conf, arg_matches, update_result>>

decodeVars ==
    <<padding, frame, now, located, outcome, ref_located, ref_outcome, alias_outcome>>

validatorVars ==
    <<arg_payload, arg_expected_id, arg_expected_len, arg_strict, overflow_checks, message,
      relaxed>>

callVars == <<call_buffer, call_pc, call_payload, call_device, call_result>>

radioVars == <<radio_output, radio_stdout, radio_item, radio_returned>>

loopVars == <<sensor_records, sensor_ignores, session_opt, taken, last, published>>

configVars == <<loaded_conf, conf, arg_matches, update_result>>

\* what the decode harness leaves alone, and what the validator harness leaves alone
notDecodeVars == <<validatorVars, callVars, radioVars, loopVars, configVars>>

notValidatorVars == <<decodeVars, callVars, radioVars, loopVars, configVars>>

\* what the concurrent decodes leave alone
notCallVars ==
    <<padding, frame, located, outcome, ref_located, ref_outcome, alias_outcome,
      validatorVars, radioVars, loopVars, configVars>>

----------------------------------------------------------------------------
(* Bounds of the model *)

\* longest buffer made only of preamble bytes (noise resembling the marker)
MaxNoise == 6

\* longest padding prepended to a frame
MaxPad == 2

----------------------------------------------------------------------------
(* Integer arithmetic of the code: u8 / u16 bit operations *)

RECURSIVE BitAnd(_, _)
BitAnd(a, b) ==
    IF a = 0 \/ b = 0 THEN 0
    ELSE (a % 2) * (b % 2) + 2 * BitAnd(a \div 2, b \div 2)

RECURSIVE BitOr(_, _)
BitOr(a, b) ==
    IF a = 0 THEN b
    ELSE IF b = 0 THEN a
    ELSE (IF (a % 2) + (b % 2) > 0 THEN 1 ELSE 0) + 2 * BitOr(a \div 2, b \div 2)

RECURSIVE BitXor(_, _)
BitXor(a, b) ==
    IF a = 0 THEN b
    ELSE IF b = 0 THEN a
    ELSE (((a % 2) + (b % 2)) % 2) + 2 * BitXor(a \div 2, b \div 2)

RECURSIVE Pow2(_)
Pow2(n) == IF n = 0 THEN 1 ELSE 2 * Pow2(n - 1)

Shr(a, n) == a \div Pow2(n)

\* << on a u16
Shl16(a, n) == (a * Pow2(n)) % 65536

\* u8::wrapping_add
wrapping_add(a, b) == (a + b) % 256

----------------------------------------------------------------------------
(* Slices *)

\* slice[i] with Rust's bounds check: InBounds(s, i) must hold or the code panics
InBounds(s, i) == i >= 0 /\ i < Len(s)

At(s, i) == s[i + 1]

\* &s[..n]
Prefix(s, n) == SubSeq(s, 1, n)

\* &s[n..]
From(s, n) == SubSeq(s, n + 1, Len(s))

\* Option<&[u8]>
None == [some |-> FALSE, bytes |-> <<>>]

Some(p) == [some |-> TRUE, bytes |-> p]

----------------------------------------------------------------------------
(* Preamble locator *)

PREAMBLE == <<\hAA, \h2D, \hD4>>

\* bitstream.windows(PREAMBLE.len()).enumerate().find(|(_, seq)| PREAMBLE == *seq),
\* resumed at window `offset`: the windows are the offsets 0 ..= len - 3, in order
RECURSIVE find_preamble(_, _)
find_preamble(bitstream, offset) ==
    IF offset + Len(PREAMBLE) > Len(bitstream) THEN [found |-> FALSE, offset |-> 0]
    ELSE IF SubSeq(bitstream, offset + 1, offset + Len(PREAMBLE)) = PREAMBLE
         THEN [found |-> TRUE, offset |-> offset]
         ELSE find_preamble(bitstream, offset + 1)

\* a scan that owns the bytes it has compared: after a window fails it resumes
\* behind the bytes already consumed by the partial match
RECURSIVE find_preamble_consuming(_, _)
find_preamble_consuming(bitstream, offset) ==
    IF offset + Len(PREAMBLE) > Len(bitstream) THEN [found |-> FALSE, offset |-> 0]
    ELSE IF SubSeq(bitstream, offset + 1, offset + Len(PREAMBLE)) = PREAMBLE
         THEN [found |-> TRUE, offset |-> offset]
         ELSE IF bitstream[offset + 1] = PREAMBLE[1]
              THEN find_preamble_consuming(bitstream, offset + 2)
              ELSE find_preamble_consuming(bitstream, offset + 1)

\* the remainder after a match at m.offset: bitstream.get(offset + 3..), None when empty
payload_after(bitstream, m) ==
    IF ~m.found THEN None
    ELSE IF m.offset + Len(PREAMBLE) > Len(bitstream) THEN None
    ELSE IF From(bitstream, m.offset + Len(PREAMBLE)) = <<>> THEN None
    ELSE Some(From(bitstream, m.offset + Len(PREAMBLE)))

\* the last window that matches instead of the first
RECURSIVE find_last_preamble(_, _)
find_last_preamble(bitstream, offset) ==
    IF offset < 0 THEN [found |-> FALSE, offset |-> 0]
    ELSE IF offset + Len(PREAMBLE) <= Len(bitstream)
            /\ SubSeq(bitstream, offset + 1, offset + Len(PREAMBLE)) = PREAMBLE
         THEN [found |-> TRUE, offset |-> offset]
         ELSE find_last_preamble(bitstream, offset - 1)

bitstream_to_payload_last(bitstream) ==
    payload_after(bitstream, find_last_preamble(bitstream, Len(bitstream)))

bitstream_to_payload_consuming(bitstream) ==
    payload_after(bitstream, find_preamble_consuming(bitstream, 0))

\* an empty remainder handed on as Some(&[])
bitstream_to_payload_keep_empty(bitstream) ==
    LET m == find_preamble(bitstream, 0)
    IN  IF ~m.found THEN None
        ELSE Some(From(bitstream, m.offset + Len(PREAMBLE)))

bitstream_to_payload(bitstream) ==
    payload_after(bitstream, find_preamble(bitstream, 0))

----------------------------------------------------------------------------
(* Results *)

\* Result<_, SensorError>; "Panic" stands for the call unwinding instead of returning.
\* val is the Ok value wrapped in a sequence (a byte slice is that sequence itself).
Ok(v) == [tag |-> "Ok", byte |-> 0, val |-> v]

Err(e) == [tag |-> e, byte |-> 0, val |-> <<>>]

IncorrectMessageType(b) == [tag |-> "IncorrectMessageType", byte |-> b, val |-> <<>>]

Panic == [tag |-> "Panic", byte |-> 0, val |-> <<>>]

SensorError ==
    {"EmptyMessage", "TruncatedMessage", "IncorrectMessageType", "InvalidCrc", "InvalidChecksum"}

----------------------------------------------------------------------------
(* Message validator *)

\* one byte fed to the CRC-8/MAXIM register (crc_any::CRCu8::crc8maxim: polynomial
\* 0x31 reflected to 0x8C, initial value 0, no final xor), bit by bit
RECURSIVE crc8maxim_shift(_, _)
crc8maxim_shift(crc, bits) ==
    IF bits = 0 THEN crc
    ELSE crc8maxim_shift(IF crc % 2 = 1 THEN BitXor(Shr(crc, 1), \h8C) ELSE Shr(crc, 1),
                         bits - 1)

crc8maxim_table == [b \in 0..255 |-> crc8maxim_shift(b, 8)]

\* crc_8.digest(bytes); crc_8.get_crc()
RECURSIVE crc8maxim_digest(_, _)
crc8maxim_digest(crc, bytes) ==
    IF bytes = <<>> THEN crc
    ELSE crc8maxim_digest(crc8maxim_table[BitXor(crc, Head(bytes))], Tail(bytes))

\* bytes.iter().fold(0, |a: u8, &b| a.wrapping_add(b))
RECURSIVE fold_wrapping_add(_, _)
fold_wrapping_add(a, bytes) ==
    IF bytes = <<>> THEN a
    ELSE fold_wrapping_add(wrapping_add(a, Head(bytes)), Tail(bytes))

\* the CRC taken over the whole payload instead of payload[..=crc_idx]
integrity_whole_payload(payload, crc_idx) ==
    IF crc8maxim_digest(0, payload) # 0 THEN Err("InvalidCrc")
    ELSE LET sum == fold_wrapping_add(0, Prefix(payload, crc_idx + 1))
             chk == At(payload, crc_idx + 1)
         IN  IF sum < chk THEN (IF overflow_checks THEN Panic ELSE Err("InvalidChecksum"))
             ELSE IF sum - chk # 0 THEN Err("InvalidChecksum")
             ELSE Ok(Prefix(payload, crc_idx))

\* the integrity steps of payload_to_message; crc_idx <= Len(payload) - 2 here
integrity(payload, crc_idx) ==
    IF crc8maxim_digest(0, Prefix(payload, crc_idx + 1)) # 0 THEN Err("InvalidCrc")
    ELSE LET sum == fold_wrapping_add(0, Prefix(payload, crc_idx + 1))
             chk == At(payload, crc_idx + 1)
         IN  \* `sum - chk` on u8: with overflow checks the subtraction unwinds when
             \* sum < chk, without them it wraps to a non-zero value
             IF sum < chk THEN (IF overflow_checks THEN Panic ELSE Err("InvalidChecksum"))
             ELSE IF sum - chk # 0 THEN Err("InvalidChecksum")
             ELSE Ok(Prefix(payload, crc_idx))

\* the length check placed before the type check
payload_to_message_len_first(payload, expected_id, expected_len, strict) ==
    IF Len(payload) < expected_len THEN Err("TruncatedMessage")
    ELSE IF ~InBounds(payload, 0) THEN Err("EmptyMessage")
    ELSE IF At(payload, 0) # expected_id THEN IncorrectMessageType(At(payload, 0))
    ELSE IF expected_len < 2 THEN Panic
    ELSE IF strict THEN integrity(payload, expected_len - 2)
    ELSE Ok(Prefix(payload, expected_len - 2))

\* an empty payload treated as a type mismatch
payload_to_message_no_empty(payload, expected_id, expected_len, strict) ==
    IF ~InBounds(payload, 0) THEN IncorrectMessageType(0)
    ELSE IF At(payload, 0) # expected_id THEN IncorrectMessageType(At(payload, 0))
    ELSE IF Len(payload) < expected_len THEN Err("TruncatedMessage")
    ELSE IF expected_len < 2 THEN Panic
    ELSE IF strict THEN integrity(payload, expected_len - 2)
    ELSE Ok(Prefix(payload, expected_len - 2))

\* `<=` in place of `<` in the length check
payload_to_message_le(payload, expected_id, expected_len, strict) ==
    IF ~InBounds(payload, 0) THEN Err("EmptyMessage")
    ELSE IF At(payload, 0) # expected_id THEN IncorrectMessageType(At(payload, 0))
    ELSE IF Len(payload) <= expected_len THEN Err("TruncatedMessage")
    ELSE IF expected_len < 2 THEN Panic
    ELSE IF strict THEN integrity(payload, expected_len - 2)
    ELSE Ok(Prefix(payload, expected_len - 2))

\* the body cut relative to the end of the payload instead of expected_len
payload_to_message_from_end(payload, expected_id, expected_len, strict) ==
    IF ~InBounds(payload, 0) THEN Err("EmptyMessage")
    ELSE IF At(payload, 0) # expected_id THEN IncorrectMessageType(At(payload, 0))
    ELSE IF Len(payload) < expected_len THEN Err("TruncatedMessage")
    ELSE IF expected_len < 2 THEN Panic
    ELSE IF strict THEN integrity(payload, expected_len - 2)
    ELSE Ok(Prefix(payload, Len(payload) - 2))

\* relaxed mode returning before the length check: the slicing of a short payload unwinds
payload_to_message_relaxed_early(payload, expected_id, expected_len, strict) ==
    IF ~InBounds(payload, 0) THEN Err("EmptyMessage")
    ELSE IF At(payload, 0) # expected_id THEN IncorrectMessageType(At(payload, 0))
    ELSE IF ~strict /\ expected_len >= 2 /\ Len(payload) >= expected_len - 2
         THEN Ok(Prefix(payload, expected_len - 2))
    ELSE IF ~strict THEN Panic
    ELSE IF Len(payload) < expected_len THEN Err("TruncatedMessage")
    ELSE IF expected_len < 2 THEN Panic
    ELSE integrity(payload, expected_len - 2)

payload_to_message(payload, expected_id, expected_len, strict) ==
    IF ~InBounds(payload, 0) THEN Err("EmptyMessage")
    ELSE IF At(payload, 0) # expected_id THEN IncorrectMessageType(At(payload, 0))
    ELSE IF Len(payload) < expected_len THEN Err("TruncatedMessage")
    \* crc_idx = expected_len - 2 on usize: below 2 the subtraction unwinds (overflow
    \* checks) or wraps to an index past every slice, and the slicing unwinds
    ELSE IF expected_len < 2 THEN Panic
    ELSE IF strict THEN integrity(payload, expected_len - 2)
    ELSE Ok(Prefix(payload, expected_len - 2))

----------------------------------------------------------------------------
(* Measurement emitter: the values *)

\* Measurement: one variant with its value; the fields a variant does not use are fixed
BatteryOk(b) == [variant |-> "BatteryOk", flag |-> b, num |-> 0, clock |-> <<>>]

BatteryLevelRaw(n) == [variant |-> "BatteryLevelRaw", flag |-> FALSE, num |-> n, clock |-> <<>>]

\* in tenths of a degree Celsius
Temperature(n) == [variant |-> "Temperature", flag |-> FALSE, num |-> n, clock |-> <<>>]

RelativeHumidity(n) == [variant |-> "RelativeHumidity", flag |-> FALSE, num |-> n, clock |-> <<>>]

\* <<year, month, day, hour, minute, second>>
Clock(t) == [variant |-> "Clock", flag |-> FALSE, num |-> 0, clock |-> t]

\* in tenths of a millimetre
Rainfall(n) == [variant |-> "Rainfall", flag |-> FALSE, num |-> n, clock |-> <<>>]

Lux(n) == [variant |-> "Lux", flag |-> FALSE, num |-> n, clock |-> <<>>]

WindSpeed(n) == [variant |-> "WindSpeed", flag |-> FALSE, num |-> n, clock |-> <<>>]

WindGust(n) == [variant |-> "WindGust", flag |-> FALSE, num |-> n, clock |-> <<>>]

WindDirection(n) == [variant |-> "WindDirection", flag |-> FALSE, num |-> n, clock |-> <<>>]

\* channel: None
NoChannel == -1

Measured(timestamp, device_id, channel, measurement) ==
    [timestamp |-> timestamp, device_id |-> device_id, channel |-> channel,
     measurement |-> measurement]

----------------------------------------------------------------------------
(* Device decoders *)

Wh31_ID_E == \h30

Wh31_ID_B == \h37

Wh31_MSGLEN == 7

WhRcc_ID == \h52

WhRcc_MSGLEN == 11

Wh40_ID == \h40

Wh40_MSGLEN == 9

Ws68_ID == \h68

Ws68_MSGLEN == 16

\* every decoder below passes this as `strict` to payload_to_message
decoder_strict == FALSE

\* the temperature left without its 40 degree offset
Wh31_try_from_no_offset(bytes) ==
    IF ~InBounds(bytes, 0) THEN Panic
    ELSE LET r == IF At(bytes, 0) = Wh31_ID_E
                  THEN payload_to_message(bytes, Wh31_ID_E, Wh31_MSGLEN, decoder_strict)
                  ELSE payload_to_message(bytes, Wh31_ID_B, Wh31_MSGLEN, decoder_strict)
             m == r.val
         IN  IF r.tag # "Ok" THEN r
             ELSE IF ~InBounds(m, 4) THEN Panic
             ELSE Ok(<<[type_id    |-> At(m, 0),
                        dev_id     |-> At(m, 1),
                        battery_ok |-> Shr(BitAnd(At(m, 2), \h80), 7) # 0,
                        channel    |-> Shr(BitAnd(At(m, 2), \h70), 4) + 1,
                        temp_c     |-> BitOr(Shl16(BitAnd(At(m, 2), \h0F), 8), At(m, 3)),
                        rel_hum    |-> At(m, 4)]>>)

\* the channel left as the three raw bits, counted from 0
Wh31_try_from_channel0(bytes) ==
    IF ~InBounds(bytes, 0) THEN Panic
    ELSE LET r == IF At(bytes, 0) = Wh31_ID_E
                  THEN payload_to_message(bytes, Wh31_ID_E, Wh31_MSGLEN, decoder_strict)
                  ELSE payload_to_message(bytes, Wh31_ID_B, Wh31_MSGLEN, decoder_strict)
             m == r.val
         IN  IF r.tag # "Ok" THEN r
             ELSE IF ~InBounds(m, 4) THEN Panic
             ELSE Ok(<<[type_id    |-> At(m, 0),
                        dev_id     |-> At(m, 1),
                        battery_ok |-> Shr(BitAnd(At(m, 2), \h80), 7) # 0,
                        channel    |-> Shr(BitAnd(At(m, 2), \h70), 4),
                        temp_c     |-> BitOr(Shl16(BitAnd(At(m, 2), \h0F), 8), At(m, 3)) - 400,
                        rel_hum    |-> At(m, 4)]>>)

\* both type bytes validated against ID_E
Wh31_try_from_e_only(bytes) ==
    IF ~InBounds(bytes, 0) THEN Panic
    ELSE LET r == payload_to_message(bytes, Wh31_ID_E, Wh31_MSGLEN, decoder_strict)
             m == r.val
         IN  IF r.tag # "Ok" THEN r
             ELSE IF ~InBounds(m, 4) THEN Panic
             ELSE Ok(<<[type_id    |-> At(m, 0),
                        dev_id     |-> At(m, 1),
                        battery_ok |-> Shr(BitAnd(At(m, 2), \h80), 7) # 0,
                        channel    |-> Shr(BitAnd(At(m, 2), \h70), 4) + 1,
                        temp_c     |-> BitOr(Shl16(BitAnd(At(m, 2), \h0F), 8), At(m, 3)) - 400,
                        rel_hum    |-> At(m, 4)]>>)

\* the channel taken from the whole high nibble of byte 2
Wh31_try_from_channel_f0(bytes) ==
    IF ~InBounds(bytes, 0) THEN Panic
    ELSE LET r == IF At(bytes, 0) = Wh31_ID_E
                  THEN payload_to_message(bytes, Wh31_ID_E, Wh31_MSGLEN, decoder_strict)
                  ELSE payload_to_message(bytes, Wh31_ID_B, Wh31_MSGLEN, decoder_strict)
             m == r.val
         IN  IF r.tag # "Ok" THEN r
             ELSE IF ~InBounds(m, 4) THEN Panic
             ELSE Ok(<<[type_id    |-> At(m, 0),
                        dev_id     |-> At(m, 1),
                        battery_ok |-> Shr(BitAnd(At(m, 2), \h80), 7) # 0,
                        channel    |-> Shr(BitAnd(At(m, 2), \hF0), 4) + 1,
                        temp_c     |-> BitOr(Shl16(BitAnd(At(m, 2), \h0F), 8), At(m, 3)) - 400,
                        rel_hum    |-> At(m, 4)]>>)

Wh31_try_from(bytes) ==
    IF ~InBounds(bytes, 0) THEN Panic
    ELSE LET r == IF At(bytes, 0) = Wh31_ID_E
                  THEN payload_to_message(bytes, Wh31_ID_E, Wh31_MSGLEN, decoder_strict)
                  ELSE payload_to_message(bytes, Wh31_ID_B, Wh31_MSGLEN, decoder_strict)
             m == r.val
         IN  IF r.tag # "Ok" THEN r
             ELSE IF ~InBounds(m, 4) THEN Panic
             ELSE Ok(<<[type_id    |-> At(m, 0),
                        dev_id     |-> At(m, 1),
                        battery_ok |-> Shr(BitAnd(At(m, 2), \h80), 7) # 0,
                        channel    |-> Shr(BitAnd(At(m, 2), \h70), 4) + 1,
                        temp_c     |-> BitOr(Shl16(BitAnd(At(m, 2), \h0F), 8), At(m, 3)) - 400,
                        rel_hum    |-> At(m, 4)]>>)

\* the humidity reading left out of the sequence
Wh31_to_measurements_no_humidity(self, timestamp) ==
    Ok(<<Measured(timestamp, self.dev_id, self.channel, BatteryOk(self.battery_ok)),
         Measured(timestamp, self.dev_id, self.channel, Temperature(self.temp_c))>>)

Wh31_to_measurements(self, timestamp) ==
    Ok(<<Measured(timestamp, self.dev_id, self.channel, BatteryOk(self.battery_ok)),
         Measured(timestamp, self.dev_id, self.channel, Temperature(self.temp_c)),
         Measured(timestamp, self.dev_id, self.channel, RelativeHumidity(self.rel_hum))>>)

\* chrono: the days of a month of the proleptic Gregorian calendar
days_in_month(yy, mo) ==
    IF mo \in {4, 6, 9, 11} THEN 30
    ELSE IF mo # 2 THEN 31
    ELSE IF yy % 4 = 0 /\ (yy % 100 # 0 \/ yy % 400 = 0) THEN 29
    ELSE 28

\* chrono::NaiveDate::from_ymd(yy, mo, dd).and_hms(hh, mm, ss) returns; otherwise it unwinds
from_ymd_and_hms_valid(yy, mo, dd, hh, mm, ss) ==
    /\ mo >= 1 /\ mo <= 12
    /\ dd >= 1 /\ dd <= days_in_month(yy, mo)
    /\ hh < 24 /\ mm < 60 /\ ss < 60

\* the two year digits counted from 1900
WhRcc_try_from_1900(bytes) ==
    LET r == payload_to_message(bytes, WhRcc_ID, WhRcc_MSGLEN, decoder_strict)
        m == r.val
    IN  IF r.tag # "Ok" THEN r
        ELSE IF ~InBounds(m, 8) THEN Panic
        ELSE LET yy == Shr(BitAnd(At(m, 3), \hF0), 4) * 10 + BitAnd(At(m, 3), \h0F) + 1900
                 mo == Shr(BitAnd(At(m, 4), \h10), 4) * 10 + BitAnd(At(m, 4), \h0F)
                 dd == Shr(BitAnd(At(m, 5), \h30), 4) * 10 + BitAnd(At(m, 5), \h0F)
                 hh == Shr(BitAnd(At(m, 6), \h30), 4) * 10 + BitAnd(At(m, 6), \h0F)
                 mm == Shr(BitAnd(At(m, 7), \h70), 4) * 10 + BitAnd(At(m, 7), \h0F)
                 ss == Shr(BitAnd(At(m, 8), \h70), 4) * 10 + BitAnd(At(m, 8), \h0F)
             IN  IF ~from_ymd_and_hms_valid(yy, mo, dd, hh, mm, ss) THEN Panic
                 ELSE Ok(<<[type_id   |-> At(m, 0),
                            dev_id    |-> At(m, 1),
                            timestamp |-> <<yy, mo, dd, hh, mm, ss>>]>>)

WhRcc_try_from(bytes) ==
    LET r == payload_to_message(bytes, WhRcc_ID, WhRcc_MSGLEN, decoder_strict)
        m == r.val
    IN  IF r.tag # "Ok" THEN r
        ELSE IF ~InBounds(m, 8) THEN Panic
        ELSE LET yy == Shr(BitAnd(At(m, 3), \hF0), 4) * 10 + BitAnd(At(m, 3), \h0F) + 2000
                 mo == Shr(BitAnd(At(m, 4), \h10), 4) * 10 + BitAnd(At(m, 4), \h0F)
                 dd == Shr(BitAnd(At(m, 5), \h30), 4) * 10 + BitAnd(At(m, 5), \h0F)
                 hh == Shr(BitAnd(At(m, 6), \h30), 4) * 10 + BitAnd(At(m, 6), \h0F)
                 mm == Shr(BitAnd(At(m, 7), \h70), 4) * 10 + BitAnd(At(m, 7), \h0F)
                 ss == Shr(BitAnd(At(m, 8), \h70), 4) * 10 + BitAnd(At(m, 8), \h0F)
             IN  IF ~from_ymd_and_hms_valid(yy, mo, dd, hh, mm, ss) THEN Panic
                 ELSE Ok(<<[type_id   |-> At(m, 0),
                            dev_id    |-> At(m, 1),
                            timestamp |-> <<yy, mo, dd, hh, mm, ss>>]>>)

\* the beacon reported with the wall clock in place of the time it carries
WhRcc_to_measurements_wall_clock(self, timestamp) ==
    Ok(<<Measured(timestamp, self.dev_id, NoChannel, Clock(<<2000 + timestamp, 1, 1, 0, 0, 0>>))>>)

WhRcc_to_measurements(self, timestamp) ==
    Ok(<<Measured(timestamp, self.dev_id, NoChannel, Clock(self.timestamp))>>)

\* the device id read one byte early
Wh40_try_from_id_early(bytes) ==
    LET r == payload_to_message(bytes, Wh40_ID, Wh40_MSGLEN, decoder_strict)
        m == r.val
    IN  IF r.tag # "Ok" THEN r
        ELSE IF ~InBounds(m, 6) THEN Panic
        ELSE Ok(<<[type_id    |-> At(m, 0),
                   dev_id     |-> BitOr(Shl16(At(m, 1), 8), At(m, 2)),
                   battery_ok |-> Shr(BitAnd(At(m, 4), \h80), 7) # 0,
                   channel    |-> Shr(BitAnd(At(m, 4), \h70), 4) + 1,
                   rain_mm    |-> BitOr(Shl16(At(m, 5), 8), At(m, 6))]>>)

Wh40_try_from(bytes) ==
    LET r == payload_to_message(bytes, Wh40_ID, Wh40_MSGLEN, decoder_strict)
        m == r.val
    IN  IF r.tag # "Ok" THEN r
        ELSE IF ~InBounds(m, 6) THEN Panic
        ELSE Ok(<<[type_id    |-> At(m, 0),
                   dev_id     |-> BitOr(Shl16(At(m, 2), 8), At(m, 3)),
                   battery_ok |-> Shr(BitAnd(At(m, 4), \h80), 7) # 0,
                   channel    |-> Shr(BitAnd(At(m, 4), \h70), 4) + 1,
                   rain_mm    |-> BitOr(Shl16(At(m, 5), 8), At(m, 6))]>>)

\* the wall clock read again for the second element
Wh40_to_measurements_two_clocks(self, timestamp) ==
    Ok(<<Measured(timestamp, self.dev_id, self.channel, BatteryOk(self.battery_ok)),
         Measured(timestamp + 1, self.dev_id, self.channel, Rainfall(self.rain_mm))>>)

Wh40_to_measurements(self, timestamp) ==
    Ok(<<Measured(timestamp, self.dev_id, self.channel, BatteryOk(self.battery_ok)),
         Measured(timestamp, self.dev_id, self.channel, Rainfall(self.rain_mm))>>)

\* bit 5 of byte 7 moved to bit 9 of the direction
Ws68_try_from_dir_bit9(bytes) ==
    LET r == payload_to_message(bytes, Ws68_ID, Ws68_MSGLEN, decoder_strict)
        m == r.val
    IN  IF r.tag # "Ok" THEN r
        ELSE IF ~InBounds(m, 12) THEN Panic
        ELSE Ok(<<[type_id |-> At(m, 0),
                   dev_id  |-> BitOr(Shl16(At(m, 2), 8), At(m, 3)),
                   lux     |-> BitOr(Shl16(At(m, 4), 8), At(m, 5)),
                   battery |-> At(m, 6),
                   w_speed |-> At(m, 10),
                   w_gust  |-> At(m, 12),
                   w_dir   |-> BitOr(Shl16(BitAnd(At(m, 7), \h20), 4), At(m, 11))]>>)

Ws68_try_from(bytes) ==
    LET r == payload_to_message(bytes, Ws68_ID, Ws68_MSGLEN, decoder_strict)
        m == r.val
    IN  IF r.tag # "Ok" THEN r
        ELSE IF ~InBounds(m, 12) THEN Panic
        ELSE Ok(<<[type_id |-> At(m, 0),
                   dev_id  |-> BitOr(Shl16(At(m, 2), 8), At(m, 3)),
                   lux     |-> BitOr(Shl16(At(m, 4), 8), At(m, 5)),
                   battery |-> At(m, 6),
                   w_speed |-> At(m, 10),
                   w_gust  |-> At(m, 12),
                   w_dir   |-> BitOr(Shl16(BitAnd(At(m, 7), \h20), 3), At(m, 11))]>>)

\* a raw level of exactly 0x30 counted as ok
Ws68_to_measurements_ge(self, timestamp) ==
    Ok(<<Measured(timestamp, self.dev_id, NoChannel, BatteryLevelRaw(self.battery)),
         Measured(timestamp, self.dev_id, NoChannel, BatteryOk(self.battery >= \h30)),
         Measured(timestamp, self.dev_id, NoChannel, Lux(self.lux)),
         Measured(timestamp, self.dev_id, NoChannel, WindSpeed(self.w_speed)),
         Measured(timestamp, self.dev_id, NoChannel, WindGust(self.w_gust)),
         Measured(timestamp, self.dev_id, NoChannel, WindDirection(self.w_dir))>>)

Ws68_to_measurements(self, timestamp) ==
    Ok(<<Measured(timestamp, self.dev_id, NoChannel, BatteryLevelRaw(self.battery)),
         Measured(timestamp, self.dev_id, NoChannel, BatteryOk(self.battery > \h30)),
         Measured(timestamp, self.dev_id, NoChannel, Lux(self.lux)),
         Measured(timestamp, self.dev_id, NoChannel, WindSpeed(self.w_speed)),
         Measured(timestamp, self.dev_id, NoChannel, WindGust(self.w_gust)),
         Measured(timestamp, self.dev_id, NoChannel, WindDirection(self.w_dir))>>)

----------------------------------------------------------------------------
(* Top-level decode: <&[u8] as ToMeasurements>::to_measurements *)

\* an arm that reports a fixed byte instead of the one it matched on
unknown_device_type_zeroed(x) == IncorrectMessageType(0)

\* the arm `x => Err(SensorError::IncorrectMessageType(x))`
unknown_device_type(x) == IncorrectMessageType(x)

\* X::try_from(payload).and_then(|s| s.to_measurements())
dispatch(payload, timestamp) ==
    LET x == At(payload, 0)
    IN  IF x = Wh31_ID_E THEN
            LET s == Wh31_try_from(payload)
            IN  IF s.tag # "Ok" THEN s ELSE Wh31_to_measurements(s.val[1], timestamp)
        ELSE IF x = Wh31_ID_B THEN
            LET s == Wh31_try_from(payload)
            IN  IF s.tag # "Ok" THEN s ELSE Wh31_to_measurements(s.val[1], timestamp)
        ELSE IF x = WhRcc_ID THEN
            LET s == WhRcc_try_from(payload)
            IN  IF s.tag # "Ok" THEN s ELSE WhRcc_to_measurements(s.val[1], timestamp)
        ELSE IF x = Wh40_ID THEN
            LET s == Wh40_try_from(payload)
            IN  IF s.tag # "Ok" THEN s ELSE Wh40_to_measurements(s.val[1], timestamp)
        ELSE IF x = Ws68_ID THEN
            LET s == Ws68_try_from(payload)
            IN  IF s.tag # "Ok" THEN s ELSE Ws68_to_measurements(s.val[1], timestamp)
        ELSE unknown_device_type(x)

to_measurements(bitstream, timestamp) ==
    LET p == bitstream_to_payload(bitstream)
    IN  IF p.some
        THEN (IF ~InBounds(p.bytes, 0) THEN Panic ELSE dispatch(p.bytes, timestamp))
        ELSE Ok(<<>>)

----------------------------------------------------------------------------
(* Inputs of the harness *)

\* the first rows of the sample tables
WH31_E_SAMPLE == <<\h30, \hc3, \h82, \h0a, \h5e, \hdf, \hbc, \h07, \h56, \ha7, \hae>>

WH31_E_RCC_SAMPLE == <<\h52, \h27, \h4a, \h20, \h10, \h20, \h02, \h06, \h55, \h05, \h75>>

WH40_SAMPLE == <<\h40, \h00, \hcd, \h6f, \h10, \h00, \h00>>

WS68_SAMPLE == <<\h68, \h00, \h00, \hc5, \h00, \h00, \h4b, \h0f, \hff, \hff, \h00, \h5a, \h00>>

\* row_vec.extend_from_slice(&[0x00; 4])
TestTrailer == <<0, 0, 0, 0>>

SeqsUpTo(S, n) == UNION {[1..k -> S] : k \in 0..n}

\* a message as a sensor sends it: the data bytes, their CRC, then the checksum of both
Seal(data) ==
    LET crc == crc8maxim_digest(0, data)
    IN  data \o <<crc>> \o <<fold_wrapping_add(0, data \o <<crc>>)>>

\* bit `i` of message `m` inverted (bit 0 is the lowest bit of the first byte)
FlipBit(m, i) ==
    [k \in 1..Len(m) |-> IF k = (i \div 8) + 1 THEN BitXor(m[k], Pow2(i % 8)) ELSE m[k]]

SetByte(m, i, b) == [k \in 1..Len(m) |-> IF k = i + 1 THEN b ELSE m[k]]

\* the data portion of one message per device type byte
DataPortions ==
    { Prefix(WH31_E_SAMPLE, 5),
      SetByte(Prefix(WH31_E_SAMPLE, 5), 0, Wh31_ID_B),
      Prefix(WH31_E_RCC_SAMPLE, 9),
      WH40_SAMPLE,
      WS68_SAMPLE \o <<\h07>> }

ValidMessages == { Seal(d) : d \in DataPortions }

FlippedMessages == { FlipBit(m, i) : <<m, i>> \in
                       UNION { {m} \X (0..(8 * Len(m) - 1)) : m \in ValidMessages } }

TruncatedMessages == UNION { { Prefix(m, n) : n \in 1..Len(m) } : m \in ValidMessages }

\* wind and light messages with a raw battery level below, at and above 0x30
BatteryMessages ==
    { Seal(SetByte(WS68_SAMPLE \o <<\h07>>, 6, b)) : b \in {\h2F, \h30, \h31} }

\* messages whose packed fields use the bits the sample rows leave clear: a cold
\* reading on channel 6 with a low battery, a rain total above 25.5 mm, and a clock whose
\* month byte has a bit above its tens bit set
FieldMessages ==
    { Seal(<<Wh31_ID_B, \hc3, \h51, \h2c, \h5e>>),
      Seal(<<Wh40_ID, \h00, \hcd, \h6f, \ha0, \h01, \h2c>>),
      Seal(<<WhRcc_ID, \h27, \h4a, \h21, \h32, \h29, \h12, \h46, \h55>>) }

\* the rows as the tests frame them, whatever their integrity bytes are
SampleRows == { r \o TestTrailer : r \in {WH31_E_SAMPLE, WH31_E_RCC_SAMPLE, WH40_SAMPLE, WS68_SAMPLE} }

\* clock beacons over calendar fields that do and do not exist
ClockMessages ==
    { Seal(<<WhRcc_ID, \h27, \h4a, y, mo, d, h, mi, sec>>) :
        <<y, mo, d, h, mi, sec>> \in
            {\h20, \h21} \X {\h00, \h02, \h10, \h1F} \X {\h00, \h20, \h29, \h31}
            \X {\h02, \h24} \X {\h06, \h60} \X {\h55, \h7F} }

UnknownTypeBytes == {\h00, \h31, \hFF}

UnknownTypeMessages ==
    { SetByte(m, 0, b) : <<m, b>> \in (ValidMessages \cup { <<0>> }) \X UnknownTypeBytes }

Messages ==
    ValidMessages \cup FlippedMessages \cup TruncatedMessages \cup SampleRows
    \cup ClockMessages \cup UnknownTypeMessages \cup BatteryMessages
    \cup FieldMessages

\* buffers made only of the three preamble bytes: noise that resembles the marker,
\* holds it zero, one or several times, and ends anywhere
NoiseBuffers == SeqsUpTo({PREAMBLE[1], PREAMBLE[2], PREAMBLE[3]}, MaxNoise)

Frames == NoiseBuffers \cup { PREAMBLE \o m : m \in Messages }

StartsWithPreamble(b) == Len(b) >= Len(PREAMBLE) /\ Prefix(b, Len(PREAMBLE)) = PREAMBLE

ContainsPreamble(b) ==
    \E i \in 0..(Len(b) - Len(PREAMBLE)) : SubSeq(b, i + 1, i + Len(PREAMBLE)) = PREAMBLE

\* padding bytes: the marker's own bytes and one byte that is none of them
PadBytes == {PREAMBLE[1], PREAMBLE[2], PREAMBLE[3], \h00}

\* the frames that are also decoded behind a padding
PaddedFrames ==
    NoiseBuffers
    \cup { PREAMBLE \o m : m \in ValidMessages \cup TruncatedMessages \cup SampleRows
                                  \cup UnknownTypeMessages }

NotCalled == [tag |-> "NotCalled", byte |-> 0, val |-> <<>>]

KnownIds == {Wh31_ID_E, Wh31_ID_B, WhRcc_ID, Wh40_ID, Ws68_ID}

MsgLen(id) ==
    IF id = Wh31_ID_E \/ id = Wh31_ID_B THEN Wh31_MSGLEN
    ELSE IF id = WhRcc_ID THEN WhRcc_MSGLEN
    ELSE IF id = Wh40_ID THEN Wh40_MSGLEN
    ELSE Ws68_MSGLEN

\* no concurrent decode is under way
CallsIdle ==
    /\ call_buffer = <<>>
    /\ call_pc = <<>>
    /\ call_payload = <<>>
    /\ call_device = <<>>
    /\ call_result = <<>>

\* no rtl_433 child is running
RadioIdle ==
    /\ radio_output = <<>>
    /\ radio_stdout = <<>>
    /\ radio_item = NotCalled
    /\ radio_returned = <<>>

\* the publish loop has not been entered
LoopIdle ==
    /\ sensor_records = <<>>
    /\ sensor_ignores = {}
    /\ session_opt = FALSE
    /\ taken = 0
    /\ last = NotCalled
    /\ published = <<>>

\* no configuration is being updated
ConfigIdle ==
    /\ loaded_conf = NotCalled
    /\ conf = NotCalled
    /\ arg_matches = NotCalled
    /\ update_result = NotCalled

\* the decode harness and the validator harness are at rest
HarnessesIdle ==
    /\ padding = <<>>
    /\ frame = <<>>
    /\ now = 0
    /\ located = None
    /\ outcome = NotCalled
    /\ ref_located = None
    /\ ref_outcome = NotCalled
    /\ alias_outcome = NotCalled
    /\ arg_payload = <<>>
    /\ arg_expected_id = 0
    /\ arg_expected_len = 0
    /\ arg_strict = FALSE
    /\ overflow_checks = FALSE
    /\ message = NotCalled
    /\ relaxed = NotCalled

----------------------------------------------------------------------------
(* Decode harness: one buffer is built, located and decoded, padded and not *)

bitstream == padding \o frame

Init ==
    /\ frame \in Frames
    /\ padding = <<>>
    /\ now = 0
    /\ pc = "start"
    /\ located = None
    /\ outcome = NotCalled
    /\ ref_located = None
    /\ ref_outcome = NotCalled
    /\ alias_outcome = NotCalled
    /\ arg_payload = <<>>
    /\ arg_expected_id = 0
    /\ arg_expected_len = 0
    /\ arg_strict = FALSE
    /\ overflow_checks \in BOOLEAN
    /\ message = NotCalled
    /\ relaxed = NotCalled
    /\ CallsIdle
    /\ RadioIdle
    /\ LoopIdle
    /\ ConfigIdle

\* let mut row_vec: Vec<u8> = vec![0xaa; i]; row_vec.extend_from_slice(&PREAMBLE); ...
\* with any padding that does not hold the marker
Pad(b) ==
    /\ pc = "start"
    /\ frame \in PaddedFrames
    /\ StartsWithPreamble(frame)
    /\ Len(padding) < MaxPad
    /\ ~ContainsPreamble(<<b>> \o padding)
    /\ padding' = <<b>> \o padding
    /\ UNCHANGED <<frame, now, pc, located, outcome, ref_located, ref_outcome, alias_outcome>>
    /\ UNCHANGED notDecodeVars

\* bitstream_to_payload(&row_vec)
Locate ==
    /\ pc = "start"
    /\ located' = bitstream_to_payload(bitstream)
    /\ pc' = "located"
    /\ UNCHANGED <<padding, frame, now, outcome, ref_located, ref_outcome, alias_outcome>>
    /\ UNCHANGED notDecodeVars

\* row_vec.as_slice().to_measurements()
Decode ==
    /\ pc = "located"
    /\ outcome' = to_measurements(bitstream, now)
    /\ now' = now + 1
    /\ pc' = "decoded"
    /\ UNCHANGED <<padding, frame, located, ref_located, ref_outcome, alias_outcome>>
    /\ UNCHANGED notDecodeVars

\* the same two calls on the buffer without its padding
DecodeUnpadded ==
    /\ pc = "decoded"
    /\ ref_located' = bitstream_to_payload(frame)
    /\ ref_outcome' = to_measurements(frame, now)
    /\ now' = now + 1
    /\ pc' = "compared"
    /\ UNCHANGED <<padding, frame, located, outcome, alias_outcome>>
    /\ UNCHANGED notDecodeVars

\* the buffer with the type byte of its probe payload exchanged, ID_E for ID_B and back
alias_buffer(b, payload) ==
    Prefix(b, Len(b) - Len(payload))
    \o SetByte(payload, 0, IF At(payload, 0) = Wh31_ID_E THEN Wh31_ID_B ELSE Wh31_ID_E)

\* a probe buffer decoded once more under its other type byte
DecodeAlias ==
    /\ pc = "compared"
    /\ alias_outcome = NotCalled
    /\ located.some
    /\ At(located.bytes, 0) \in {Wh31_ID_E, Wh31_ID_B}
    /\ alias_outcome' = to_measurements(alias_buffer(bitstream, located.bytes), now)
    /\ now' = now + 1
    /\ UNCHANGED <<padding, frame, pc, located, outcome, ref_located, ref_outcome>>
    /\ UNCHANGED notDecodeVars

Next ==
    \/ \E b \in PadBytes : Pad(b)
    \/ Locate
    \/ Decode
    \/ DecodeUnpadded
    \/ DecodeAlias

Spec == Init /\ [][Next]_vars

----------------------------------------------------------------------------
(* Validator harness: payload_to_message called directly on one payload *)

ExpectedIds == KnownIds

\* the decoders' message lengths, and the two shortest lengths a caller can pass
ExpectedLens == {1, 2, Wh31_MSGLEN, WhRcc_MSGLEN, Wh40_MSGLEN, Ws68_MSGLEN}

\* valid messages followed by the bytes the tests append
TrailedMessages == { m \o TestTrailer : m \in ValidMessages }

ValidatorPayloads ==
    {<<>>} \cup ValidMessages \cup TruncatedMessages \cup UnknownTypeMessages \cup SampleRows
    \cup TrailedMessages
    \cup { FlipBit(Seal(Prefix(WH31_E_SAMPLE, 5)), i) : i \in 0..(8 * Wh31_MSGLEN - 1) }

InitValidator ==
    /\ arg_payload \in ValidatorPayloads
    /\ arg_expected_id \in ExpectedIds
    /\ arg_expected_len \in ExpectedLens
    /\ arg_strict \in BOOLEAN
    /\ overflow_checks \in BOOLEAN
    /\ message = NotCalled
    /\ relaxed = NotCalled
    /\ pc = "validate"
    /\ padding = <<>>
    /\ frame = <<>>
    /\ now = 0
    /\ located = None
    /\ outcome = NotCalled
    /\ ref_located = None
    /\ ref_outcome = NotCalled
    /\ alias_outcome = NotCalled
    /\ CallsIdle
    /\ RadioIdle
    /\ LoopIdle
    /\ ConfigIdle

Validate ==
    /\ pc = "validate"
    /\ message' = payload_to_message(arg_payload, arg_expected_id, arg_expected_len, arg_strict)
    /\ pc' = "validated"
    /\ UNCHANGED <<arg_payload, arg_expected_id, arg_expected_len, arg_strict, overflow_checks,
                   relaxed>>
    /\ UNCHANGED notValidatorVars

\* the same payload, id and length validated again with strict = false
ValidateRelaxed ==
    /\ pc = "validated"
    /\ relaxed = NotCalled
    /\ relaxed' = payload_to_message(arg_payload, arg_expected_id, arg_expected_len, FALSE)
    /\ UNCHANGED <<arg_payload, arg_expected_id, arg_expected_len, arg_strict, overflow_checks,
                   message, pc>>
    /\ UNCHANGED notValidatorVars

NextValidator ==
    \/ Validate
    \/ ValidateRelaxed

SpecValidator == InitValidator /\ [][NextValidator]_vars

----------------------------------------------------------------------------
(* Concurrent decodes: to_measurements called on several buffers by independent *)
(* threads, each call advancing through its own steps in any interleaving; the  *)
(* only thing the calls have in common is the wall clock they read              *)

\* the calls under way
MaxCalls == 3

Calls == 1..MaxCalls

\* the buffers the calls decode: a valid probe, beacon and rain gauge message, a
\* message of an unknown type and a buffer that ends with its marker
CallBuffers ==
    { PREAMBLE \o Seal(Prefix(WH31_E_SAMPLE, 5)),
      PREAMBLE \o Seal(Prefix(WH31_E_RCC_SAMPLE, 9)),
      PREAMBLE \o Seal(WH40_SAMPLE),
      PREAMBLE \o <<\h31, \hc3, \h82>>,
      PREAMBLE }

\* the match on payload[0]: X::try_from(payload)
device_try_from(payload) ==
    LET x == At(payload, 0)
    IN  IF x = Wh31_ID_E THEN Wh31_try_from(payload)
        ELSE IF x = Wh31_ID_B THEN Wh31_try_from(payload)
        ELSE IF x = WhRcc_ID THEN WhRcc_try_from(payload)
        ELSE IF x = Wh40_ID THEN Wh40_try_from(payload)
        ELSE IF x = Ws68_ID THEN Ws68_try_from(payload)
        ELSE unknown_device_type(x)

\* .and_then(|s| s.to_measurements()) on the device the match produced
device_to_measurements(s, timestamp) ==
    IF s.type_id = Wh31_ID_E \/ s.type_id = Wh31_ID_B THEN Wh31_to_measurements(s, timestamp)
    ELSE IF s.type_id = WhRcc_ID THEN WhRcc_to_measurements(s, timestamp)
    ELSE IF s.type_id = Wh40_ID THEN Wh40_to_measurements(s, timestamp)
    ELSE Ws68_to_measurements(s, timestamp)

\* a payload kept in one place for all calls: every call works on the first call's
shared_payload(c) == call_payload[1]

\* `payload` is a local of the call: a borrow of the call's own buffer
own_payload(c) == call_payload[c]

InitCalls ==
    /\ call_buffer \in [Calls -> CallBuffers]
    /\ call_pc = [c \in Calls |-> "start"]
    /\ call_payload = [c \in Calls |-> None]
    /\ call_device = [c \in Calls |-> NotCalled]
    /\ call_result = [c \in Calls |-> NotCalled]
    /\ now = 0
    /\ pc = "calls"
    /\ padding = <<>>
    /\ frame = <<>>
    /\ located = None
    /\ outcome = NotCalled
    /\ ref_located = None
    /\ ref_outcome = NotCalled
    /\ alias_outcome = NotCalled
    /\ arg_payload = <<>>
    /\ arg_expected_id = 0
    /\ arg_expected_len = 0
    /\ arg_strict = FALSE
    /\ overflow_checks = FALSE
    /\ message = NotCalled
    /\ relaxed = NotCalled
    /\ RadioIdle
    /\ LoopIdle
    /\ ConfigIdle

\* if let Some(payload) = bitstream_to_payload(self)
CallLocate(c) ==
    /\ call_pc[c] = "start"
    /\ call_payload' = [call_payload EXCEPT ![c] = bitstream_to_payload(call_buffer[c])]
    /\ call_pc' = [call_pc EXCEPT ![c] = "located"]
    /\ UNCHANGED <<call_buffer, call_device, call_result, now, pc>>
    /\ UNCHANGED notCallVars

\* match payload[0] { X::ID => X::try_from(payload) ..., x => Err(..) }, or Ok(Vec::new())
CallTryFrom(c) ==
    /\ call_pc[c] = "located"
    /\ IF ~own_payload(c).some
       THEN /\ call_result' = [call_result EXCEPT ![c] = Ok(<<>>)]
            /\ call_pc' = [call_pc EXCEPT ![c] = "done"]
            /\ UNCHANGED call_device
       ELSE LET s == device_try_from(own_payload(c).bytes)
            IN  /\ call_device' = [call_device EXCEPT ![c] = s]
                /\ IF s.tag = "Ok"
                   THEN /\ call_pc' = [call_pc EXCEPT ![c] = "converted"]
                        /\ UNCHANGED call_result
                   ELSE /\ call_pc' = [call_pc EXCEPT ![c] = "done"]
                        /\ call_result' = [call_result EXCEPT ![c] = s]
    /\ UNCHANGED <<call_buffer, call_payload, now, pc>>
    /\ UNCHANGED notCallVars

\* s.to_measurements(): the wall clock is read once, here
CallEmit(c) ==
    /\ call_pc[c] = "converted"
    /\ call_result' = [call_result EXCEPT ![c] = device_to_measurements(call_device[c].val[1], now)]
    /\ now' = now + 1
    /\ call_pc' = [call_pc EXCEPT ![c] = "done"]
    /\ UNCHANGED <<call_buffer, call_payload, call_device, pc>>
    /\ UNCHANGED notCallVars

NextCalls ==
    \/ \E c \in Calls : CallLocate(c)
    \/ \E c \in Calls : CallTryFrom(c)
    \/ \E c \in Calls : CallEmit(c)

SpecCalls == InitCalls /\ [][NextCalls]_vars

----------------------------------------------------------------------------
(* rtl_433 reader (src/src/radio.rs): Sensor<RTL433> as an iterator of records. *)
(* A line of the child's output is kept as what the parsers ask of it: whether  *)
(* it is JSON, whether its root is an object, whether it has a "time" string in *)
(* the expected format, whether model/id/channel give a sensor id, and whether  *)
(* ERTType/ERTSerialNumber give a meter id                                      *)

\* the most reads the child's output pipe delivers before it ends
MaxLines == 3

Read(io, json, object, time, sensor, meter, text) ==
    [io |-> io, json |-> json, object |-> object, time |-> time, sensor |-> sensor,
     meter |-> meter, text |-> text]

\* stdout.read_line(&mut line) failing
IoError == Read("Err", FALSE, FALSE, FALSE, FALSE, FALSE, "")

OutputLines ==
    { Read("Ok", FALSE, FALSE, FALSE, FALSE, FALSE, "rtl_433 version 21.05"),
      Read("Ok", TRUE, FALSE, FALSE, FALSE, FALSE, "42"),
      Read("Ok", TRUE, TRUE, FALSE, TRUE, FALSE, "{model, id, channel}"),
      Read("Ok", TRUE, TRUE, TRUE, FALSE, FALSE, "{time}"),
      Read("Ok", TRUE, TRUE, TRUE, TRUE, FALSE, "{time, model, id, channel}"),
      Read("Ok", TRUE, TRUE, TRUE, FALSE, TRUE, "{time, ERTType, ERTSerialNumber}") }

Reads == OutputLines \cup {IoError}

NoneItem == [tag |-> "None", byte |-> 0, val |-> <<>>]

SomeItem(v) == [tag |-> "Some", byte |-> 0, val |-> <<v>>]

\* Sensor::get_line: read until a read succeeds; Ok(0) is the end of the stream
RECURSIVE get_line(_)
get_line(stdout) ==
    IF stdout = <<>> THEN [line |-> NoneItem, rest |-> <<>>]
    ELSE IF Head(stdout).io = "Err" THEN get_line(Tail(stdout))
    ELSE [line |-> SomeItem(Head(stdout)), rest |-> Tail(stdout)]

\* serde_json::from_str(&line)
from_str(line) == IF line.json THEN Ok(<<line>>) ELSE Err("JsonError")

Record(parser, json) == [parser |-> parser, record_json |-> json]

\* crate::ambientweather::try_parse(&json)
ambientweather_try_parse(json) ==
    IF ~json.object THEN Err("NotDictionary")
    ELSE IF ~json.time THEN Err("MissingTimestamp")
    ELSE IF ~json.sensor THEN Err("MissingSensorId")
    ELSE Ok(<<Record("ambientweather", json)>>)

\* crate::idm::try_parse(&json)
idm_try_parse(json) ==
    IF ~json.object THEN Err("NotDictionary")
    ELSE IF ~json.time THEN Err("MissingTimestamp")
    ELSE IF ~json.meter THEN Err("MissingSensorId")
    ELSE Ok(<<Record("idm", json)>>)

\* <Sensor<RTL433> as Iterator>::next: the item returned and the reads left
RECURSIVE Sensor_next(_)
Sensor_next(stdout) ==
    LET l == get_line(stdout)
    IN  IF l.line.tag = "None" THEN [item |-> NoneItem, rest |-> l.rest]
        ELSE LET json_result == from_str(l.line.val[1])
             IN  IF json_result.tag # "Ok" THEN [item |-> NoneItem, rest |-> l.rest]
                 ELSE LET json == json_result.val[1]
                      IN  IF ambientweather_try_parse(json).tag = "Ok"
                          THEN [item |-> SomeItem(ambientweather_try_parse(json).val[1]),
                                rest |-> l.rest]
                          ELSE IF idm_try_parse(json).tag = "Ok"
                          THEN [item |-> SomeItem(idm_try_parse(json).val[1]), rest |-> l.rest]
                          ELSE Sensor_next(l.rest)

InitRadio ==
    /\ radio_output \in SeqsUpTo(Reads, MaxLines)
    /\ radio_stdout = radio_output
    /\ radio_item = NotCalled
    /\ radio_returned = <<>>
    /\ pc = "iterating"
    /\ HarnessesIdle
    /\ CallsIdle
    /\ LoopIdle
    /\ ConfigIdle

\* one call of next() by the `for` loop, which stops at the first None
SensorNext ==
    /\ pc = "iterating"
    /\ LET r == Sensor_next(radio_stdout)
       IN  /\ radio_item' = r.item
           /\ radio_stdout' = r.rest
           /\ radio_returned' = IF r.item.tag = "Some"
                                THEN Append(radio_returned, r.item.val[1])
                                ELSE radio_returned
           /\ pc' = IF r.item.tag = "Some" THEN "iterating" ELSE "ended"
    /\ UNCHANGED radio_output
    /\ UNCHANGED <<decodeVars, validatorVars, callVars, loopVars, configVars>>

NextRadio == SensorNext

SpecRadio == InitRadio /\ [][NextRadio]_vars

----------------------------------------------------------------------------
(* Publish loop (src/src/main.rs): the records of the sensor iterator, filtered  *)
(* by sensor_ignores, de-duplicated against the remembered record and published. *)
(* A record is its sensor_id and, as `data`, everything else Record's derived    *)
(* equality compares                                                             *)

\* the most records the sensor yields before its iterator ends
MaxRecords == 4

SensorRecord(sensor_id, data) == [sensor_id |-> sensor_id, data |-> data]

SensorRecords ==
    { SensorRecord("WH31E/1", 1), SensorRecord("WH31E/1", 2), SensorRecord("WH31E/2", 1),
      SensorRecord("23/45027331", 1) }

\* .filter(|r| !conf.sensor_ignores.contains(&r.sensor_id))
passes_filter(ignores, record) == record.sensor_id \notin ignores

\* a record taken for a duplicate as soon as it comes from the remembered sensor
is_duplicate_same_sensor(l, record) ==
    l.tag = "Some" /\ l.val[1].sensor_id = record.sensor_id

\* last.as_ref().map(|l| l == &record).unwrap_or(false)
is_duplicate(l, record) == l.tag = "Some" /\ l.val[1] = record

InitLoop ==
    /\ sensor_records \in SeqsUpTo(SensorRecords, MaxRecords)
    /\ sensor_ignores \in {{}, {"23/45027331"}, {"WH31E/1"}}
    /\ session_opt \in BOOLEAN
    /\ taken = 0
    /\ last = NoneItem
    /\ published = <<>>
    /\ pc = "loop"
    /\ HarnessesIdle
    /\ CallsIdle
    /\ RadioIdle
    /\ ConfigIdle

\* the record the iterator hands out next
next_record == sensor_records[taken + 1]

\* the filter drops the record inside the iterator: the loop body does not run
Filtered ==
    /\ pc = "loop"
    /\ taken < Len(sensor_records)
    /\ ~passes_filter(sensor_ignores, next_record)
    /\ taken' = taken + 1
    /\ UNCHANGED <<sensor_records, sensor_ignores, session_opt, last, published, pc>>
    /\ UNCHANGED <<decodeVars, validatorVars, callVars, radioVars, configVars>>

\* if last == record { continue; }
Duplicate ==
    /\ pc = "loop"
    /\ taken < Len(sensor_records)
    /\ passes_filter(sensor_ignores, next_record)
    /\ is_duplicate(last, next_record)
    /\ taken' = taken + 1
    /\ UNCHANGED <<sensor_records, sensor_ignores, session_opt, last, published, pc>>
    /\ UNCHANGED <<decodeVars, validatorVars, callVars, radioVars, configVars>>

\* session.publish(msg)?; last = Some(record);
Publish ==
    /\ pc = "loop"
    /\ taken < Len(sensor_records)
    /\ passes_filter(sensor_ignores, next_record)
    /\ ~is_duplicate(last, next_record)
    /\ session_opt
    /\ published' = Append(published, next_record)
    /\ last' = SomeItem(next_record)
    /\ taken' = taken + 1
    /\ UNCHANGED <<sensor_records, sensor_ignores, session_opt, pc>>
    /\ UNCHANGED <<decodeVars, validatorVars, callVars, radioVars, configVars>>

\* session.publish(msg)? returning the broker's error: main returns
PublishFails ==
    /\ pc = "loop"
    /\ taken < Len(sensor_records)
    /\ passes_filter(sensor_ignores, next_record)
    /\ ~is_duplicate(last, next_record)
    /\ session_opt
    /\ taken' = taken + 1
    /\ pc' = "failed"
    /\ UNCHANGED <<sensor_records, sensor_ignores, session_opt, last, published>>
    /\ UNCHANGED <<decodeVars, validatorVars, callVars, radioVars, configVars>>

\* no session: the record is only logged; last = Some(record);
LogOnly ==
    /\ pc = "loop"
    /\ taken < Len(sensor_records)
    /\ passes_filter(sensor_ignores, next_record)
    /\ ~is_duplicate(last, next_record)
    /\ ~session_opt
    /\ last' = SomeItem(next_record)
    /\ taken' = taken + 1
    /\ UNCHANGED <<sensor_records, sensor_ignores, session_opt, published, pc>>
    /\ UNCHANGED <<decodeVars, validatorVars, callVars, radioVars, configVars>>

NextLoop ==
    \/ Filtered
    \/ Duplicate
    \/ Publish
    \/ PublishFails
    \/ LogOnly

SpecLoop == InitLoop /\ [][NextLoop]_vars

----------------------------------------------------------------------------
(* Configuration (src/src/config.rs): Config::update_from_args.  An Option is a *)
(* sequence of no or one element; arg_matches maps the ids main.rs defines to   *)
(* what the command line gave for them                                          *)

NoneOpt == <<>>

SomeOpt(v) == <<v>>

ConfigFile(u, p) == [variant |-> "ConfigFile", username |-> u, password |-> p]

Keyring(u) == [variant |-> "Keyring", username |-> u, password |-> ""]

\* impl Default for Credentials
Credentials_default == ConfigFile("", "")

\* MqttConfig::new(broker)
MqttConfig_new(broker) == [broker |-> broker, credentials |-> NoneOpt]

MqttConfig(broker, credentials) == [broker |-> broker, credentials |-> credentials]

Config(output_level, rtl_433, mqtt, ignores) ==
    [output_level |-> output_level, rtl_433 |-> rtl_433, mqtt |-> mqtt,
     sensor_ignores |-> ignores]

\* the configurations a config.json can hold
LoadedConfigs ==
    { Config(l, r, m, i) :
        l \in {NoneOpt, SomeOpt(0), SomeOpt(3)},
        r \in {NoneOpt, SomeOpt("/usr/bin/rtl_433")},
        m \in {NoneOpt,
               SomeOpt(MqttConfig("localhost:1883", NoneOpt)),
               SomeOpt(MqttConfig("localhost:1883", SomeOpt(ConfigFile("weather", "secret")))),
               SomeOpt(MqttConfig("localhost:1883", SomeOpt(Keyring("weather"))))},
        i \in {{}, {"WH31E/1"}} }

\* the ids of the arguments main.rs defines
ArgIds ==
    {"quiet", "debug", "rtl_433_bin", "mqtt_broker", "mqtt_user", "mqtt_credentials_keyring",
     "mqtt_credentials_config", "ignore", "generate_config"}

\* the values given for one argument; a flag that is present has the value ""
ArgMatches ==
    { [id \in ArgIds |->
          CASE id = "quiet" -> q
            [] id = "debug" -> g
            [] id = "rtl_433_bin" -> r
            [] id = "mqtt_broker" -> b
            [] id = "mqtt_user" -> u
            [] id = "mqtt_credentials_keyring" -> k
            [] id = "mqtt_credentials_config" -> NoneOpt
            [] id = "ignore" -> i
            [] OTHER -> NoneOpt] :
        q \in {NoneOpt, <<"">>},
        g \in {NoneOpt, <<"", "">>},
        r \in {NoneOpt, <<"/opt/rtl_433">>},
        b \in {NoneOpt, <<"broker:1883">>},
        u \in {NoneOpt, <<"radio">>},
        k \in {NoneOpt, <<"">>},
        i \in {NoneOpt, <<"WH31E/2", "23/45027331">>} }

\* ArgMatches::is_present, ::occurrences_of, ::value_of, ::values_of; an id that no
\* argument was defined with is never present
is_present(m, id) == id \in DOMAIN m /\ m[id] # <<>>

occurrences_of(m, id) == IF id \in DOMAIN m THEN Len(m[id]) ELSE 0

value_of(m, id) == IF is_present(m, id) THEN SomeOpt(m[id][1]) ELSE NoneOpt

values_of(m, id) == IF id \in DOMAIN m THEN { m[id][k] : k \in 1..Len(m[id]) } ELSE {}

\* Credentials::as_keyring (the keyring accepts the secret), ::as_configfile (the
\* keyring holds no secret), ::update_username
as_keyring(cred) ==
    IF cred.variant = "Keyring" THEN cred ELSE Keyring(cred.username)

as_configfile(cred) ==
    IF cred.variant = "ConfigFile" THEN cred ELSE ConfigFile(cred.username, "")

update_username(cred, username) == [cred EXCEPT !.username = username]

\* the credentials step of update_from_args
new_credentials(credentials, m) ==
    LET cred == IF credentials = NoneOpt THEN Credentials_default ELSE credentials[1]
        new_cred == IF is_present(m, "mqtt_keyring_password") THEN as_keyring(cred)
                    ELSE IF is_present(m, "mqtt_config_password") THEN as_configfile(cred)
                    ELSE cred
    IN  IF value_of(m, "mqtt_user") # NoneOpt
        THEN update_username(new_cred, value_of(m, "mqtt_user")[1])
        ELSE new_cred

\* Config::update_from_args: the result and the Config it leaves behind
update_from_args(self, m) ==
    LET level == IF is_present(m, "quiet") \/ is_present(m, "debug")
                 THEN (IF is_present(m, "quiet") THEN SomeOpt(0)
                       ELSE SomeOpt((occurrences_of(m, "debug") % 256) + 1))
                 ELSE self.output_level
        rtl == IF value_of(m, "rtl_433_bin") # NoneOpt THEN value_of(m, "rtl_433_bin")
               ELSE self.rtl_433
        mqtt == IF value_of(m, "mqtt_broker") # NoneOpt
                THEN (IF self.mqtt # NoneOpt
                      THEN SomeOpt([self.mqtt[1] EXCEPT !.broker = value_of(m, "mqtt_broker")[1]])
                      ELSE SomeOpt(MqttConfig_new(value_of(m, "mqtt_broker")[1])))
                ELSE self.mqtt
    IN  IF mqtt # NoneOpt
        THEN [tag |-> "Ok",
              conf |-> Config(level, rtl,
                              SomeOpt([mqtt[1] EXCEPT !.credentials =
                                          SomeOpt(new_credentials(mqtt[1].credentials, m))]),
                              self.sensor_ignores \cup values_of(m, "ignore"))]
        ELSE IF is_present(m, "mqtt-user") \/ is_present(m, "mqtt-password")
        THEN [tag |-> "MqttMissingBroker", conf |-> Config(level, rtl, mqtt, self.sensor_ignores)]
        ELSE [tag |-> "Ok",
              conf |-> Config(level, rtl, mqtt, self.sensor_ignores \cup values_of(m, "ignore"))]

InitConfig ==
    /\ loaded_conf \in LoadedConfigs
    /\ conf = loaded_conf
    /\ arg_matches \in ArgMatches
    /\ update_result = NotCalled
    /\ pc = "loaded"
    /\ HarnessesIdle
    /\ CallsIdle
    /\ RadioIdle
    /\ LoopIdle

\* conf.update_from_args(&matches)
UpdateFromArgs ==
    /\ pc = "loaded"
    /\ LET r == update_from_args(conf, arg_matches)
       IN  /\ conf' = r.conf
           /\ update_result' = [tag |-> r.tag, byte |-> 0, val |-> <<>>]
    /\ pc' = "updated"
    /\ UNCHANGED <<loaded_conf, arg_matches>>
    /\ UNCHANGED <<decodeVars, validatorVars, callVars, radioVars, loopVars>>

NextConfig == UpdateFromArgs

SpecConfig == InitConfig /\ [][NextConfig]_vars

----------------------------------------------------------------------------
(* Properties *)

\* the offsets at which the marker occurs in b, found without scanning in order
Occurrences(b) ==
    { i \in 0..(Len(b) - Len(PREAMBLE)) : SubSeq(b, i + 1, i + Len(PREAMBLE)) = PREAMBLE }

FirstOccurrence(b) == CHOOSE i \in Occurrences(b) : \A j \in Occurrences(b) : i <= j

\* the bytes strictly after the first occurrence of the marker
AfterFirstPreamble(b) == From(b, FirstOccurrence(b) + Len(PREAMBLE))

Located == pc \in {"located", "decoded", "compared"}

Decoded == pc \in {"decoded", "compared"}

\* C1: when the buffer holds the marker, the located payload is exactly the bytes
\* after its first (lowest-offset) occurrence, later occurrences included in it,
\* and it is reported as a payload whenever there is at least one such byte.
C1_FirstPreambleWins ==
    (Located /\ ContainsPreamble(bitstream)) =>
        /\ located.bytes = AfterFirstPreamble(bitstream)
        /\ located.some <=> AfterFirstPreamble(bitstream) # <<>>

\* a buffer with a second marker after the first has been located
C1_Witness ==
    /\ pc = "located"
    /\ Cardinality(Occurrences(bitstream)) >= 2
    /\ located.some
    /\ ContainsPreamble(located.bytes)

\* two outcomes that differ at most in the capture timestamp of their values
SameApartFromTimestamp(a, b) ==
    /\ a.tag = b.tag
    /\ a.byte = b.byte
    /\ Len(a.val) = Len(b.val)
    /\ \A k \in 1..Len(a.val) :
         /\ a.val[k].device_id = b.val[k].device_id
         /\ a.val[k].channel = b.val[k].channel
         /\ a.val[k].measurement = b.val[k].measurement

\* C2: a frame that starts with the marker decodes the same with and without a
\* padding that does not hold the marker: same located payload, same outcome apart
\* from the timestamp, and no occurrence of the marker starts inside the padding.
C2_PaddingInvariance ==
    (pc = "compared" /\ StartsWithPreamble(frame) /\ ~ContainsPreamble(padding)) =>
        /\ located = ref_located
        /\ SameApartFromTimestamp(outcome, ref_outcome)
        /\ \A i \in Occurrences(bitstream) : i >= Len(padding)

\* a padded sample decoded to measurements both ways, the padding a run of the
\* first marker byte
C2_Witness ==
    /\ pc = "compared"
    /\ padding = <<PREAMBLE[1], PREAMBLE[1]>>
    /\ StartsWithPreamble(frame)
    /\ outcome.tag = "Ok"
    /\ Len(outcome.val) > 0
    /\ outcome.val[1].timestamp # ref_outcome.val[1].timestamp

\* the buffer holds no marker, or nothing follows its first marker
NoPayload(b) == ~ContainsPreamble(b) \/ AfterFirstPreamble(b) = <<>>

\* C3: a buffer without a marker, or with nothing after its first marker, gives
\* None from the locator and Ok with an empty sequence from the decode.
C3_NoPayloadIsOk ==
    (Decoded /\ NoPayload(bitstream)) => (located = None /\ outcome = Ok(<<>>))

\* a buffer longer than the marker that ends with its first marker was decoded
C3_Witness ==
    /\ pc = "decoded"
    /\ Len(bitstream) > Len(PREAMBLE)
    /\ ContainsPreamble(bitstream)
    /\ AfterFirstPreamble(bitstream) = <<>>
    /\ outcome = Ok(<<>>)

\* the payload starts with a known type byte and holds a whole message of that type
WholeMessage(p) == Len(p) >= 1 /\ p[1] \in KnownIds /\ Len(p) >= MsgLen(p[1])

\* the CRC residue over the data and CRC bytes is non-zero, or their sum is not the
\* checksum byte
IntegrityBroken(p) ==
    LET n == MsgLen(p[1])
    IN  \/ crc8maxim_digest(0, Prefix(p, n - 1)) # 0
        \/ fold_wrapping_add(0, Prefix(p, n - 1)) # p[n]

\* C4: a whole message of a known type whose CRC or checksum does not verify is
\* never decoded into measurements.
C4_StrictProduction ==
    (Decoded /\ ContainsPreamble(bitstream)
        /\ WholeMessage(AfterFirstPreamble(bitstream))
        /\ IntegrityBroken(AfterFirstPreamble(bitstream))) =>
        outcome.tag # "Ok"

\* the frame is a valid message with one bit of its data portion inverted
DataBitFlipped(f) ==
    \E m \in ValidMessages : \E i \in 0..(8 * (Len(m) - 2) - 1) : f = PREAMBLE \o FlipBit(m, i)

\* C5: a valid message with one bit of its data portion inverted decodes to
\* InvalidCrc or InvalidChecksum.
C5_SingleBitFlipDetected ==
    (Decoded /\ DataBitFlipped(frame)) => outcome.tag \in {"InvalidCrc", "InvalidChecksum"}

\* C6: every decode returns: Ok with measurements or one of the five errors.
C6_AtomicOutcome ==
    Decoded => outcome.tag \in ({"Ok"} \cup SensorError)

\* C7: a payload whose first byte is no known device type gives
\* IncorrectMessageType with exactly that byte, whatever the payload's length.
C7_UnknownDeviceType ==
    (Decoded /\ ~NoPayload(bitstream) /\ AfterFirstPreamble(bitstream)[1] \notin KnownIds) =>
        outcome = IncorrectMessageType(AfterFirstPreamble(bitstream)[1])

\* a one-byte payload of unknown type was decoded
C7_Witness ==
    /\ pc = "decoded"
    /\ ~NoPayload(bitstream)
    /\ Len(AfterFirstPreamble(bitstream)) = 1
    /\ AfterFirstPreamble(bitstream)[1] = \hFF
    /\ outcome.tag = "IncorrectMessageType"

\* C8: a payload of a known type shorter than that type's message length gives
\* TruncatedMessage (the decode returns, so no index past the payload was used: an
\* out-of-range index unwinds), and one of exactly the message length does not.
C8_Truncation ==
    (Decoded /\ ~NoPayload(bitstream) /\ AfterFirstPreamble(bitstream)[1] \in KnownIds) =>
        LET p == AfterFirstPreamble(bitstream)
        IN  /\ Len(p) < MsgLen(p[1]) => outcome = Err("TruncatedMessage")
            /\ Len(p) = MsgLen(p[1]) => outcome.tag # "TruncatedMessage"

\* a wind/light payload one byte short of its 16 was decoded
C8_Witness ==
    /\ pc = "decoded"
    /\ ~NoPayload(bitstream)
    /\ AfterFirstPreamble(bitstream)[1] = Ws68_ID
    /\ Len(AfterFirstPreamble(bitstream)) = Ws68_MSGLEN - 1
    /\ outcome.tag = "TruncatedMessage"

\* C9: a non-empty payload whose first byte is not expected_id gives
\* IncorrectMessageType with that byte, strict or not, truncated or not.
C9_TypeBeforeLength ==
    (pc = "validated" /\ arg_payload # <<>> /\ arg_payload[1] # arg_expected_id) =>
        message = IncorrectMessageType(arg_payload[1])

\* a strict call on a payload both of the wrong type and too short
C9_Witness ==
    /\ pc = "validated"
    /\ arg_strict
    /\ arg_payload # <<>>
    /\ arg_payload[1] # arg_expected_id
    /\ Len(arg_payload) < arg_expected_len
    /\ message.tag = "IncorrectMessageType"

\* C10: an empty payload gives EmptyMessage for every expected_id, expected_len
\* and strictness.
C10_EmptyFirst ==
    (pc = "validated" /\ arg_payload = <<>>) => message = Err("EmptyMessage")

\* a strict call with an empty payload and a device's message length
C10_Witness ==
    /\ pc = "validated"
    /\ arg_payload = <<>>
    /\ arg_strict
    /\ arg_expected_len = Ws68_MSGLEN
    /\ message.tag = "EmptyMessage"

\* the validator harness has made its first call, with arg_strict
Validated == pc = "validated"

\* the call passed the type and the length check
PassedTypeAndLength ==
    /\ arg_payload # <<>>
    /\ arg_payload[1] = arg_expected_id
    /\ Len(arg_payload) >= arg_expected_len

\* the CRC-8/MAXIM register after the bits of `bytes`, lowest bit of each byte first:
\* one shift of the register per message bit, 0x8C fed back when the bit shifted out
\* and the message bit differ
MaximStep ==
    [crc \in 0..255, msg_bit \in 0..1 |->
        IF (crc + msg_bit) % 2 = 1 THEN BitXor(crc \div 2, 140) ELSE crc \div 2]

\* the register after the eight bits of one byte, bit 0 first
MaximByte(crc, byte) ==
    MaximStep[MaximStep[MaximStep[MaximStep[MaximStep[MaximStep[MaximStep[MaximStep[
        crc, byte % 2], (byte \div 2) % 2], (byte \div 4) % 2], (byte \div 8) % 2],
        (byte \div 16) % 2], (byte \div 32) % 2], (byte \div 64) % 2], (byte \div 128) % 2]

RECURSIVE MaximBitSerial(_, _)
MaximBitSerial(crc, bytes) ==
    IF bytes = <<>> THEN crc
    ELSE MaximBitSerial(MaximByte(crc, Head(bytes)), Tail(bytes))

\* bytes 0 ..= expected_len - 2 of the payload: the data bytes and the CRC byte
CheckedBytes == SubSeq(arg_payload, 1, arg_expected_len - 1)

RECURSIVE SumOf(_)
SumOf(bytes) == IF bytes = <<>> THEN 0 ELSE Head(bytes) + SumOf(Tail(bytes))

\* C11: a strict call that passes the type and the length check gives InvalidCrc
\* exactly when the CRC-8/MAXIM over bytes 0 ..= expected_len - 2 is non-zero,
\* whatever the bytes from index expected_len - 1 on are.
C11_StrictCrcStep ==
    (Validated /\ arg_strict /\ PassedTypeAndLength) =>
        (message.tag = "InvalidCrc" <=> MaximBitSerial(0, CheckedBytes) # 0)

\* a strict call on a sample row followed by its trailer failed the CRC step
C11_Witness ==
    /\ Validated
    /\ arg_strict
    /\ PassedTypeAndLength
    /\ Len(arg_payload) > arg_expected_len
    /\ arg_expected_len = MsgLen(arg_expected_id)
    /\ message.tag = "InvalidCrc"

\* the call passed the type, the length and the CRC check
PassedCrc ==
    /\ PassedTypeAndLength
    /\ arg_expected_len >= 2
    /\ MaximBitSerial(0, CheckedBytes) = 0

\* C12: a strict call that passes the type, length and CRC checks gives
\* InvalidChecksum exactly when the sum modulo 256 of bytes 0 ..= expected_len - 2
\* differs from byte expected_len - 1, and succeeds when they are equal, also
\* when the sum is the smaller of the two.
C12_StrictChecksumStep ==
    (Validated /\ arg_strict /\ PassedCrc) =>
        LET sum == SumOf(CheckedBytes) % 256
            chk == arg_payload[arg_expected_len]
        IN  /\ message.tag = "InvalidChecksum" <=> sum # chk
            /\ sum = chk => message.tag = "Ok"

\* C13: a successful call returns exactly payload[0 .. expected_len - 2]: the CRC
\* and checksum bytes and every byte after them are left out, its length is
\* expected_len - 2 and its first byte (it has one when expected_len > 2) is
\* expected_id.
C13_VerifiedBody ==
    (Validated /\ message.tag = "Ok") =>
        /\ message.val = SubSeq(arg_payload, 1, arg_expected_len - 2)
        /\ Len(message.val) = arg_expected_len - 2
        /\ arg_expected_len > 2 => message.val[1] = arg_expected_id

\* a payload longer than its message was accepted in strict and in relaxed mode
C13_Witness ==
    /\ Validated
    /\ message.tag = "Ok"
    /\ arg_strict
    /\ relaxed.tag = "Ok"
    /\ Len(arg_payload) > arg_expected_len
    /\ arg_expected_len = Ws68_MSGLEN

StructuralErrors == {"EmptyMessage", "IncorrectMessageType", "TruncatedMessage"}

\* C14: a relaxed call never gives InvalidCrc or InvalidChecksum; it gives
\* EmptyMessage, IncorrectMessageType and TruncatedMessage exactly where the strict
\* call on the same arguments does; and where the strict call succeeds the relaxed
\* call succeeds with the same body.
C14_RelaxedSkipsIntegrityOnly ==
    /\ (Validated /\ ~arg_strict) => message.tag \notin {"InvalidCrc", "InvalidChecksum"}
    /\ (Validated /\ relaxed # NotCalled) =>
          /\ relaxed.tag \notin {"InvalidCrc", "InvalidChecksum"}
          /\ arg_strict =>
                /\ message.tag \in StructuralErrors => relaxed = message
                /\ relaxed.tag \in StructuralErrors => message = relaxed
                /\ message.tag = "Ok" => relaxed = message

\* a truncated payload was refused by the strict and by the relaxed call alike
C14_Witness ==
    /\ Validated
    /\ arg_strict
    /\ message.tag = "TruncatedMessage"
    /\ relaxed.tag = "TruncatedMessage"

\* the payload the decode worked on, and its byte at index i
DecodedPayload == AfterFirstPreamble(bitstream)

Byte(i) == DecodedPayload[i + 1]

\* the decode accepted a message whose type byte is one of `ids`
Accepted(ids) ==
    /\ Decoded
    /\ ~NoPayload(bitstream)
    /\ DecodedPayload[1] \in ids
    /\ outcome.tag = "Ok"

\* what the emitted measurements say
Emitted(variant) ==
    { outcome.val[k].measurement : k \in { j \in 1..Len(outcome.val) :
                                            outcome.val[j].measurement.variant = variant } }

EmittedDeviceIds == { outcome.val[k].device_id : k \in 1..Len(outcome.val) }

EmittedChannels == { outcome.val[k].channel : k \in 1..Len(outcome.val) }

\* C15: an accepted message of type 0x30 or 0x37 gives battery_ok = the top bit of
\* byte 2, channel = bits 4..6 of byte 2 plus 1, temperature in tenths of a degree
\* = (low nibble of byte 2) * 256 + byte 3 - 400, humidity = byte 4 and device id
\* = byte 1.
C15_TempHumidityDecode ==
    Accepted({48, 55}) =>
        /\ Emitted("BatteryOk") = {BatteryOk(Byte(2) >= 128)}
        /\ EmittedChannels = {((Byte(2) \div 16) % 8) + 1}
        /\ Emitted("Temperature") = {Temperature((Byte(2) % 16) * 256 + Byte(3) - 400)}
        /\ Emitted("RelativeHumidity") = {RelativeHumidity(Byte(4))}
        /\ EmittedDeviceIds = {Byte(1)}

\* an accepted 0x37 message with a low battery, a channel above 1 and a
\* temperature below zero
C15_Witness ==
    /\ Accepted({55})
    /\ Byte(2) < 128
    /\ (Byte(2) \div 16) % 8 > 0
    /\ \E t \in Emitted("Temperature") : t.num < 0

\* the first WH31_E fixture, byte 2 = 0x82 and byte 3 = 0x0a, was accepted
FirstFixtureAccepted ==
    /\ Accepted({48})
    /\ Byte(2) = 130
    /\ Byte(3) = 10

\* C16 as stated: the sample with byte 2 = 0x82 and byte 3 = 0x0a decodes to
\* 52.2 degrees Celsius (522 tenths).
C16_SampleIs52_2 ==
    FirstFixtureAccepted => Emitted("Temperature") = {Temperature(522)}

\* C16, amended: the sample with byte 2 = 0x82 and byte 3 = 0x0a decodes to
\* 12.2 degrees Celsius (0x20A = 522 tenths, less the 40 degree offset: 122 tenths).
C16_SampleIs12_2 ==
    FirstFixtureAccepted => Emitted("Temperature") = {Temperature(122)}

\* the fixture row itself, framed as the tests frame it, was decoded
C16_Witness ==
    /\ FirstFixtureAccepted
    /\ DecodedPayload = WH31_E_SAMPLE \o TestTrailer
    /\ Emitted("Temperature") # {}

\* the two BCD digits of a byte, the tens digit cut to the bits of `mask`
Tens(b, mask) == ((b \div 16) % (mask + 1)) * 10

Units(b) == b % 16

\* C17: an accepted type 0x52 message emits as its Clock exactly
\* year = 2000 + 10 * (high nibble of byte 3) + (low nibble of byte 3),
\* month from byte 4 (tens: bit 4), day from byte 5 (tens: bits 4..5),
\* hour from byte 6 (tens: bits 4..5), minute from byte 7 (tens: bits 4..6),
\* second from byte 8 (tens: bits 4..6), each tens * 10 + low nibble.
C17_ClockDecode ==
    Accepted({82}) =>
        Emitted("Clock") =
            {Clock(<<2000 + Tens(Byte(3), 15) + Units(Byte(3)),
                     Tens(Byte(4), 1) + Units(Byte(4)),
                     Tens(Byte(5), 3) + Units(Byte(5)),
                     Tens(Byte(6), 3) + Units(Byte(6)),
                     Tens(Byte(7), 7) + Units(Byte(7)),
                     Tens(Byte(8), 7) + Units(Byte(8))>>)}

\* an accepted beacon whose month, day, hour and second have a tens digit, and
\* one bit of byte 4 above the month's tens bit set
C17_Witness ==
    /\ Accepted({82})
    /\ Byte(4) >= 32
    /\ Byte(5) >= 16
    /\ Byte(6) >= 16
    /\ Byte(8) >= 16
    /\ Emitted("Clock") # {}

\* C18: an accepted type 0x40 message gives device id = byte 2 * 256 + byte 3,
\* battery_ok = the top bit of byte 4, channel = bits 4..6 of byte 4 plus 1 and
\* rainfall in tenths of a millimetre = byte 5 * 256 + byte 6.
C18_RainGaugeDecode ==
    Accepted({64}) =>
        /\ EmittedDeviceIds = {Byte(2) * 256 + Byte(3)}
        /\ Emitted("BatteryOk") = {BatteryOk(Byte(4) >= 128)}
        /\ EmittedChannels = {((Byte(4) \div 16) % 8) + 1}
        /\ Emitted("Rainfall") = {Rainfall(Byte(5) * 256 + Byte(6))}

\* an accepted rain gauge message with both device id bytes and both rainfall
\* bytes in use
C18_Witness ==
    /\ Accepted({64})
    /\ Byte(2) > 0
    /\ Byte(3) > 0
    /\ Byte(5) > 0
    /\ Byte(6) > 0
    /\ Emitted("Rainfall") # {}

\* C19: an accepted type 0x68 message gives device id = byte 2 * 256 + byte 3,
\* illuminance = byte 4 * 256 + byte 5, raw battery level = byte 6, wind speed
\* = byte 10, gust = byte 12 and direction = bit 5 of byte 7 as bit 8 above
\* byte 11, a value in 0..511.
C19_WindLightDecode ==
    Accepted({104}) =>
        /\ EmittedDeviceIds = {Byte(2) * 256 + Byte(3)}
        /\ Emitted("Lux") = {Lux(Byte(4) * 256 + Byte(5))}
        /\ Emitted("BatteryLevelRaw") = {BatteryLevelRaw(Byte(6))}
        /\ Emitted("WindSpeed") = {WindSpeed(Byte(10))}
        /\ Emitted("WindGust") = {WindGust(Byte(12))}
        /\ Emitted("WindDirection") = {WindDirection(((Byte(7) \div 32) % 2) * 256 + Byte(11))}
        /\ \A d \in Emitted("WindDirection") : d.num \in 0..511

\* an accepted wind and light message with bit 5 of byte 7 set: a direction
\* of 256 or more
C19_Witness ==
    /\ Accepted({104})
    /\ (Byte(7) \div 32) % 2 = 1
    /\ \E d \in Emitted("WindDirection") : d.num >= 256

\* C20: an accepted type 0x68 message emits BatteryOk true exactly when byte 6
\* is greater than 0x30, and emits byte 6 unchanged as BatteryLevelRaw.
C20_WindLightBattery ==
    Accepted({104}) =>
        /\ Emitted("BatteryOk") = {BatteryOk(Byte(6) > 48)}
        /\ Emitted("BatteryLevelRaw") = {BatteryLevelRaw(Byte(6))}

\* an accepted wind and light message with a raw level of exactly 0x30,
\* reported as not ok
C20_Witness ==
    /\ Accepted({104})
    /\ Byte(6) = 48
    /\ Emitted("BatteryOk") = {BatteryOk(FALSE)}

\* the decode of a found payload succeeded
Succeeded ==
    /\ Decoded
    /\ ~NoPayload(bitstream)
    /\ outcome.tag = "Ok"

\* the variants of the emitted sequence, in order
EmittedVariants == [k \in 1..Len(outcome.val) |-> outcome.val[k].measurement.variant]

\* the order documented for each device type
EmissionOrder(id) ==
    IF id \in {48, 55} THEN <<"BatteryOk", "Temperature", "RelativeHumidity">>
    ELSE IF id = 82 THEN <<"Clock">>
    ELSE IF id = 64 THEN <<"BatteryOk", "Rainfall">>
    ELSE IF id = 104 THEN <<"BatteryLevelRaw", "BatteryOk", "Lux", "WindSpeed", "WindGust",
                            "WindDirection">>
    ELSE <<>>

\* C21: every successful decode of a found payload yields a non-empty sequence
\* whose variants and order are fixed by the device type: probe [BatteryOk,
\* Temperature, RelativeHumidity], clock beacon [Clock], rain gauge [BatteryOk,
\* Rainfall], wind/light [BatteryLevelRaw, BatteryOk, Lux, WindSpeed, WindGust,
\* WindDirection].
C21_EmissionOrder ==
    Succeeded =>
        /\ outcome.val # <<>>
        /\ EmittedVariants = EmissionOrder(DecodedPayload[1])

\* a wind and light message was decoded behind a padding into its six readings
C21_Witness ==
    /\ Succeeded
    /\ padding # <<>>
    /\ DecodedPayload[1] = 104
    /\ Len(outcome.val) = 6

EmittedTimestamps == { outcome.val[k].timestamp : k \in 1..Len(outcome.val) }

\* C22: all Measured values of one decoded message carry the same timestamp, the
\* same device id and the same channel.
C22_SharedMetadata ==
    Succeeded =>
        /\ Cardinality(EmittedTimestamps) = 1
        /\ Cardinality(EmittedDeviceIds) = 1
        /\ Cardinality(EmittedChannels) = 1

\* a rain gauge message decoded into two readings at a wall clock that has moved
C22_Witness ==
    /\ Succeeded
    /\ pc = "compared"
    /\ DecodedPayload[1] = 64
    /\ Len(outcome.val) = 2
    /\ Len(ref_outcome.val) = 2
    /\ ref_outcome.val[1].timestamp # outcome.val[1].timestamp

\* C23: the Measured values of the clock beacon, the rain gauge and the wind/light
\* station carry no channel; those of the temperature/humidity probe carry one.
C23_ChannelPresence ==
    Succeeded =>
        /\ DecodedPayload[1] \in {82, 64, 104} => EmittedChannels = {NoChannel}
        /\ DecodedPayload[1] \in {48, 55} => NoChannel \notin EmittedChannels

CallDone(c) == call_pc[c] = "done"

\* C24: decoding the same buffer twice, in any order and with other decodes in
\* between, gives the same outcome: the same error, or sequences equal in length,
\* device id, channel and measurement position by position; only the timestamp
\* may differ.
C24_Determinism ==
    \A c1, c2 \in Calls :
        (CallDone(c1) /\ CallDone(c2) /\ call_buffer[c1] = call_buffer[c2]) =>
            SameApartFromTimestamp(call_result[c1], call_result[c2])

\* the first and the last call decoded the same beacon at different times, with a
\* decode of another buffer finished between them
C24_Witness ==
    /\ call_pc = [c \in Calls |-> "done"]
    /\ call_buffer[1] = call_buffer[MaxCalls]
    /\ call_buffer[2] # call_buffer[1]
    /\ call_result[1].tag = "Ok"
    /\ Len(call_result[1].val) = 1
    /\ call_result[1].val[1].measurement.variant = "Clock"
    /\ call_result[2].tag = "Ok"
    /\ call_result[2].val # <<>>
    /\ call_result[1].val[1].timestamp < call_result[2].val[1].timestamp
    /\ call_result[2].val[1].timestamp < call_result[MaxCalls].val[1].timestamp

\* C25: when the steps of several decodes interleave, each call's result is the
\* result of decoding its buffer alone (apart from the time at which the clock
\* was read).
C25_NoInterference ==
    \A c \in Calls :
        CallDone(c) =>
            SameApartFromTimestamp(call_result[c], to_measurements(call_buffer[c], 0))

\* two calls on different buffers both finished, with readings of different devices
C25_Witness ==
    \E c1, c2 \in Calls :
        /\ c1 # c2
        /\ call_buffer[c1] # call_buffer[c2]
        /\ CallDone(c1)
        /\ CallDone(c2)
        /\ call_result[c1].tag = "Ok"
        /\ call_result[c2].tag = "Ok"
        /\ call_result[c1].val # <<>>
        /\ call_result[c2].val # <<>>
        /\ call_result[c1].val[1].device_id # call_result[c2].val[1].device_id

\* C29: the top-level decode never returns EmptyMessage, and every
\* IncorrectMessageType(b) it returns has b outside {0x30, 0x37, 0x52, 0x40, 0x68}.
C29_EmptyMessageUnreachable ==
    Decoded =>
        /\ outcome.tag # "EmptyMessage"
        /\ outcome.tag = "IncorrectMessageType" => outcome.byte \notin {48, 55, 82, 64, 104}

\* a padded buffer that ends with its marker was decoded to no measurement, and
\* the frame alone too
C29_Witness ==
    /\ pc = "compared"
    /\ padding # <<>>
    /\ ContainsPreamble(bitstream)
    /\ AfterFirstPreamble(bitstream) = <<>>
    /\ outcome.tag = "Ok"
    /\ ref_outcome.tag = "Ok"

AliasDecoded == pc = "compared" /\ alias_outcome # NotCalled

\* C30: two payloads of at least 7 bytes that differ only in the first byte being
\* 0x30 versus 0x37 decode to sequences with the same device id, channel, battery
\* flag, temperature and humidity; every accepted probe message has its channel in
\* 1..8 and its raw temperature in 0..4095.
C30_AliasEquivalence ==
    /\ (AliasDecoded /\ Len(DecodedPayload) >= 7) =>
          /\ outcome.tag = "Ok"
          /\ alias_outcome.tag = "Ok"
          /\ Len(outcome.val) = 3
          /\ SameApartFromTimestamp(outcome, alias_outcome)
    /\ Accepted({48, 55}) =>
          /\ EmittedChannels \subseteq 1..8
          /\ \A t \in Emitted("Temperature") : t.num + 400 \in 0..4095

\* a 0x37 message on channel 6 and its 0x30 twin were both decoded into readings
C30_Witness ==
    /\ AliasDecoded
    /\ DecodedPayload[1] = 55
    /\ EmittedChannels = {6}
    /\ outcome.tag = "Ok"
    /\ alias_outcome.tag = "Ok"
    /\ alias_outcome.val # <<>>

\* a line either parser accepts
Acceptable(read) ==
    /\ read.io = "Ok"
    /\ read.json
    /\ read.object
    /\ read.time
    /\ read.sensor \/ read.meter

\* C26: a line that is not JSON, or that neither parser accepts, is skipped and the
\* next line is read; next returns None only at the end of the child's output. So
\* when the iteration has ended, every read has been consumed and every acceptable
\* line of the output has been returned as a record, in order.
C26_RetryUntilEnd ==
    pc = "ended" =>
        /\ radio_stdout = <<>>
        /\ [k \in 1..Len(radio_returned) |-> radio_returned[k].record_json]
             = SelectSeq(radio_output, Acceptable)

\* the records taken so far whose sensor is not ignored, in arrival order
NotIgnored(record) == record.sensor_id \notin sensor_ignores

Kept == SelectSeq(SubSeq(sensor_records, 1, taken), NotIgnored)

\* a sequence without the elements that repeat their predecessor
RECURSIVE Distinct(_)
Distinct(seq) ==
    IF Len(seq) <= 1 THEN seq
    ELSE IF seq[1] = seq[2] THEN Distinct(Tail(seq))
    ELSE <<seq[1]>> \o Distinct(Tail(seq))

\* what the loop has to have published: all of Distinct(Kept), short of the record
\* at which the broker failed
ToPublish == IF pc = "failed" THEN SubSeq(Distinct(Kept), 1, Len(Distinct(Kept)) - 1)
             ELSE Distinct(Kept)

\* C27: records of ignored sensors are never published and never change the
\* remembered record; of the others, one equal to the most recently published is
\* skipped and every other one is published exactly once, in arrival order (with no
\* mqtt session the publish step only logs, and nothing is published).
C27_Deduplication ==
    pc \in {"loop", "failed"} =>
        /\ \A k \in 1..Len(published) : published[k].sensor_id \notin sensor_ignores
        /\ session_opt => published = ToPublish
        /\ ~session_opt => published = <<>>
        /\ last = IF ToPublish = <<>> THEN NoneItem ELSE SomeItem(ToPublish[Len(ToPublish)])

\* A, A, B, A arrived while another sensor was ignored, and A, B, A were published
C27_Witness ==
    /\ pc = "loop"
    /\ session_opt
    /\ sensor_ignores # {}
    /\ taken = Len(sensor_records)
    /\ Len(published) = 3
    /\ published[1] = published[3]
    /\ published[1] # published[2]
    /\ Len(Kept) = 4
    /\ Kept[1] = Kept[2]

\* no configuration argument is present on the command line
NoConfigArgs == \A id \in ArgIds \ {"generate_config"} : arg_matches[id] = <<>>

\* C28: called with no configuration argument present, update_from_args leaves
\* output_level, rtl_433, the mqtt broker, the mqtt credentials (an unset value
\* included) and sensor_ignores exactly as they were loaded.
C28_AbsentArgsKeepConfig ==
    (pc = "updated" /\ NoConfigArgs) =>
        /\ conf.output_level = loaded_conf.output_level
        /\ conf.rtl_433 = loaded_conf.rtl_433
        /\ conf.sensor_ignores = loaded_conf.sensor_ignores
        /\ (conf.mqtt = NoneOpt) = (loaded_conf.mqtt = NoneOpt)
        /\ loaded_conf.mqtt # NoneOpt =>
              /\ conf.mqtt[1].broker = loaded_conf.mqtt[1].broker
              /\ conf.mqtt[1].credentials = loaded_conf.mqtt[1].credentials

====
